---- MODULE Spec2Model ----
(***************************************************************************)
(* alot-path-completer.py: a registry of path completers, filled while the *)
(* script loads, and a dispatcher that resolves the requested completer    *)
(* names, runs each completer's generator in turn and prints every         *)
(* completion it has not printed before.                                   *)
(*                                                                         *)
(* A string is a sequence of one-character strings, so that parsing a URI, *)
(* percent-decoding, basename and prefix tests are computed, not assumed.  *)
(***************************************************************************)
EXTENDS Naturals, Sequences, FiniteSets

(***************************************************************************)
(* Bounds of the model.                                                    *)
(***************************************************************************)
\* the longest list of names given to --completers
MaxNames == 2
\* the most records the back-ends (recoll query, recent-documents list) return
\* during one run, all calls together
MaxRecords == 2

(***************************************************************************)
(* Strings.                                                                *)
(***************************************************************************)
StartsWith(s, prefix) ==
    /\ Len(prefix) <= Len(s)
    /\ \A i \in 1..Len(prefix) : s[i] = prefix[i]

\* s[i:] of Python, with i counted from 0
Drop(s, n) == SubSeq(s, n + 1, Len(s))

\* s[:i] of Python
Take(s, n) == SubSeq(s, 1, n)

\* s.find(c) + 1: the position of the first c, or 0
Find(s, c) ==
    IF \E i \in 1..Len(s) : s[i] = c
    THEN CHOOSE i \in 1..Len(s) : s[i] = c /\ \A j \in 1..(i - 1) : s[j] # c
    ELSE 0

\* s.rfind(c) + 1: the position of the last c, or 0
RFind(s, c) ==
    IF \E i \in 1..Len(s) : s[i] = c
    THEN CHOOSE i \in 1..Len(s) : s[i] = c /\ \A j \in (i + 1)..Len(s) : s[j] # c
    ELSE 0

\* the position of the first character of s that is in cs, or Len(s) + 1
FindAny(s, cs) ==
    IF \E i \in 1..Len(s) : s[i] \in cs
    THEN CHOOSE i \in 1..Len(s) : s[i] \in cs /\ \A j \in 1..(i - 1) : s[j] \notin cs
    ELSE Len(s) + 1

\* str.lower, on the letters the model's strings use
LowerChar(c) ==
    CASE c = "F" -> "f"
      [] c = "I" -> "i"
      [] c = "L" -> "l"
      [] c = "E" -> "e"
      [] OTHER -> c

Lower(s) == [i \in 1..Len(s) |-> LowerChar(s[i])]

AllSlashes(s) == \A i \in 1..Len(s) : s[i] = "/"

RECURSIVE RStripSlashes(_)
RStripSlashes(s) ==
    IF s # <<>> /\ s[Len(s)] = "/" THEN RStripSlashes(Take(s, Len(s) - 1)) ELSE s

(***************************************************************************)
(* os.path (posixpath).                                                    *)
(***************************************************************************)
\* os.path.basename(p): what follows the last slash
basename(p) == Drop(p, RFind(p, "/"))

\* os.path.split(p): head and tail around the last slash; the head loses its
\* trailing slashes unless it is made of slashes only
split(p) ==
    LET i == RFind(p, "/")
        head == Take(p, i)
    IN  [head |-> IF head # <<>> /\ ~AllSlashes(head) THEN RStripSlashes(head) ELSE head,
         tail |-> Drop(p, i)]

\* os.path.join(a, b) for a relative b
join(a, b) ==
    IF a = <<>> \/ a[Len(a)] = "/" THEN a \o b ELSE a \o <<"/">> \o b

isabs(p) == StartsWith(p, <<"/">>)

(***************************************************************************)
(* urlparse.urlparse and urllib.unquote (Python 2).                        *)
(***************************************************************************)
SchemeChars ==
    {"a", "b", "c", "d", "e", "f", "h", "i", "l", "p", "s", "t",
     "F", "I", "L", "E", "+", "-", "."}

Digits == {"0", "1", "2", "3", "4", "5", "6", "7", "8", "9"}

\* urlsplit: a scheme is what precedes the first colon when it is made of scheme
\* characters and the rest is not a port number; it is lower-cased
HasScheme(url) ==
    LET i == Find(url, ":")
        rest == Drop(url, i)
    IN  /\ i > 1
        /\ \A j \in 1..(i - 1) : url[j] \in SchemeChars
        /\ (rest = <<>> \/ \E j \in 1..Len(rest) : rest[j] \notin Digits)

\* the result of urlparse: scheme, netloc and path (query and fragment cut off)
urlparse(url) ==
    LET i == Find(url, ":")
        scheme == IF HasScheme(url) THEN Lower(Take(url, i - 1)) ELSE <<>>
        rest == IF HasScheme(url) THEN Drop(url, i) ELSE url
        hasNetloc == StartsWith(rest, <<"/", "/">>)
        afterSlashes == Drop(rest, 2)
        delim == FindAny(afterSlashes, {"/", "?", "#"})
        netloc == IF hasNetloc THEN Take(afterSlashes, delim - 1) ELSE <<>>
        rest2 == IF hasNetloc THEN Drop(afterSlashes, delim - 1) ELSE rest
        rest3 == Take(rest2, FindAny(rest2, {"#"}) - 1)
        path == Take(rest3, FindAny(rest3, {"?"}) - 1)
    IN  [scheme |-> scheme, netloc |-> netloc, path |-> path]

\* _hextochr, for the codes of the characters the model's paths use
HexCodes == {<<"2", "F">>, <<"2", "f">>, <<"6", "1">>, <<"6", "2">>, <<"6", "3">>, <<"6", "4">>}

HexToChr(code) ==
    CASE code \in {<<"2", "F">>, <<"2", "f">>} -> "/"
      [] code = <<"6", "1">> -> "a"
      [] code = <<"6", "2">> -> "b"
      [] code = <<"6", "3">> -> "c"
      [] code = <<"6", "4">> -> "d"

\* urllib.unquote: every %XX becomes the character it encodes; a percent sign
\* no code follows stays as it is
RECURSIVE unquote(_)
unquote(s) ==
    IF s = <<>> THEN <<>>
    ELSE IF s[1] = "%" /\ Len(s) >= 3 /\ SubSeq(s, 2, 3) \in HexCodes
         THEN <<HexToChr(SubSeq(s, 2, 3))>> \o unquote(Drop(s, 3))
         ELSE <<s[1]>> \o unquote(Drop(s, 1))

(***************************************************************************)
(* The world outside the script: the file system, the installed modules,   *)
(* the recoll service, and what the back-ends return.                      *)
(***************************************************************************)
\* os.getcwd()
Cwd == <<"/", "d">>

Root == <<"/">>

\* the directories, which stay
Dirs == {Root, Cwd}

\* the files other processes may delete and create again
Files ==
    {<<"/", "d", "/", "a", "b", "c">>,
     <<"/", "d", "/", "a", "b", "d">>}

\* the url of a recoll document, the uri of a recent-documents item
Uris ==
    {<<"f", "i", "l", "e", ":", "/", "/", "/", "d", "/", "a", "b", "c">>,
     <<"f", "i", "l", "e", ":", "/", "/", "/", "d", "/", "a", "%", "6", "2", "d">>,
     <<"F", "i", "l", "e", ":", "/", "/", "/", "d", "%", "2", "F", "a", "b", "c">>,
     <<"h", "t", "t", "p", ":", "/", "/", "h", "/", "d", "/", "a", "b", "c">>}

\* the search patterns: empty, relative of length 1 to 3, absolute; none holds
\* a character glob gives a meaning to
Patterns ==
    {<<>>, <<"a">>, <<"a", "b">>, <<"a", "b", "c">>, <<"/", "d", "/", "a", "b">>}

\* the names a caller may list: the three the script defines and one it does not
Names == {"native", "recoll", "gnome-recent-docs", "bogus"}

\* the third-party modules a completer imports
OptionalModules == {"recoll", "gtk"}

\* the path as the kernel resolves it: a relative one against the working directory
abspath(p) == IF isabs(p) THEN p ELSE join(Cwd, p)

\* os.path.exists(p)
exists(p, files) == p # <<>> /\ abspath(p) \in (files \cup Dirs)

\* the directory holding an absolute path
ParentDir(p) ==
    LET h == Take(p, RFind(p, "/") - 1) IN IF h = <<>> THEN Root ELSE h

\* os.listdir(d): the names in directory d; nothing when d is no directory
\* (glob1 turns the os.error into an empty list)
listdir(d, files) ==
    IF d = <<>> \/ abspath(d) \notin Dirs THEN {}
    ELSE {basename(p) : p \in {q \in (files \cup (Dirs \ {Root})) : ParentDir(q) = abspath(d)}}

\* fnmatch of a name against literal text followed by one star
fnmatch(name, pat) == StartsWith(name, Take(pat, Len(pat) - 1))

\* glob.glob1(dirname, pattern): the matching names of the directory, the hidden
\* ones only for a pattern that starts with a dot
glob1(dirname, pat, files) ==
    {n \in listdir(dirname, files) : (pat[1] = "." \/ n[1] # ".") /\ fnmatch(n, pat)}

\* glob.iglob(pathname) for a pathname whose only magic is its last star: bare
\* names of the working directory when the pathname has no directory part, else
\* the directory part joined to each matching name
iglob(pathname, files) ==
    LET parts == split(pathname)
    IN  IF parts.head = <<>>
        THEN glob1(Cwd, parts.tail, files)
        ELSE {join(parts.head, n) : n \in glob1(parts.head, parts.tail, files)}

\* the orders in which a set can be enumerated
Orders(S) ==
    {f \in [1..Cardinality(S) -> S] : \A i, j \in 1..Cardinality(S) : f[i] = f[j] => i = j}

(***************************************************************************)
(* The state of the script.                                                *)
(***************************************************************************)
VARIABLES
    pc,                     \* where the script is
    importable,             \* the optional modules that are installed
    service,                \* whether recoll.connect() succeeds
    files,                  \* the files that exist now
    served,                 \* how many records the back-ends have handed over
    available_completers,   \* the registry: name -> completer function
    requested,              \* options.completers.split(',')
    search_pattern,
    selected_completers,
    ci,                     \* the position of the outer loop in selected_completers
    candidate_completions,  \* the generator the inner loop is consuming
    existing_completions,
    stdout,                 \* the lines printed
    stderr,                 \* the names the error message has reported
    uncaught,               \* the call whose exception ended the script
    exit_status,            \* <<>> while running, <<n>> once exited
    yielded,                \* history: every candidate a completer yielded
    skipped,                \* history: every record a completer dropped, and why
    left                    \* history: per completer left behind, was it exhausted

vars ==
    <<pc, importable, service, files, served, available_completers, requested,
      search_pattern, selected_completers, ci, candidate_completions,
      existing_completions, stdout, stderr, uncaught, exit_status, yielded,
      skipped, left>>

env == <<importable, service>>
args == <<requested, search_pattern>>
output == <<existing_completions, stdout, yielded>>
ending == <<stderr, uncaught, exit_status>>

\* the lists of names --completers can carry
NameLists == UNION {[1..n -> Names] : n \in 1..MaxNames}

\* no generator: before the outer loop starts
NoGenerator == [func |-> "none", state |-> "none", items |-> <<>>, nres |-> 0, fetched |-> 0]

\* a generator object just created by calling a completer: no line of it has run
NewGenerator(func) ==
    [func |-> func, state |-> "created", items |-> <<>>, nres |-> 0, fetched |-> 0]

\* a generator that has returned
Finished(g) == [func |-> g.func, state |-> "finished", items |-> <<>>, nres |-> 0, fetched |-> 0]

(***************************************************************************)
(* The registry.                                                           *)
(***************************************************************************)
\* available_completers[name] = func
register_completer(registry, name, func) ==
    [n \in DOMAIN registry \cup {name} |-> IF n = name THEN func ELSE registry[n]]

\* variant: the completer is registered whether or not its imports succeed
ImportsSucceed_Always(modules, installed) == TRUE

\* whether the imports at the head of a try block succeed
ImportsSucceed(modules, installed) == modules \subseteq installed

\* variant: only the default completer is found
IsRegistered_OnlyNative(name, registry) == name = "native" /\ name \in DOMAIN registry

\* available_completers[name] raises KeyError unless the name is registered
IsRegistered(name, registry) == name \in DOMAIN registry

\* variant: the last unknown name is the one reported
FirstUnknown_Last(names, registry) ==
    IF \A i \in 1..Len(names) : names[i] \in DOMAIN registry THEN 0
    ELSE CHOOSE i \in 1..Len(names) :
            /\ names[i] \notin DOMAIN registry
            /\ \A j \in (i + 1)..Len(names) : names[j] \in DOMAIN registry

\* the list comprehension looks the names up from left to right and stops at the
\* first KeyError: the position of that name, or 0 when every name resolves
FirstUnknown(names, registry) ==
    IF \A i \in 1..Len(names) : IsRegistered(names[i], registry) THEN 0
    ELSE CHOOSE i \in 1..Len(names) :
            /\ ~IsRegistered(names[i], registry)
            /\ \A j \in 1..(i - 1) : IsRegistered(names[j], registry)

(***************************************************************************)
(* The completers.                                                         *)
(***************************************************************************)
\* the shortest pattern recoll_complete does not answer is one longer than this
MinPatternLen == 2

\* variant: the names of the directory's entries, without the directory
native_complete_Names(pattern, fs) ==
    LET parts == split(pattern \o <<"*">>)
    IN  glob1(IF parts.head = <<>> THEN Cwd ELSE parts.head, parts.tail, fs)

\* native_complete: glob.iglob(pattern + '*')
native_complete(pattern, fs) == iglob(pattern \o <<"*">>, fs)

\* variant: the guard is off by one
TooShort_OffByOne(pattern) == Len(pattern) < MinPatternLen

\* if len(pattern) <= 2: return
TooShort(pattern) == Len(pattern) <= MinPatternLen

\* if uri.scheme != 'file': continue
IsFileScheme(uri) == uri.scheme = <<"f", "i", "l", "e">>

\* variant: the prefix test is applied to the whole path
BasenameMatches_WholePath(path, pattern) == StartsWith(path, pattern)

\* os.path.basename(path).startswith(pattern)
BasenameMatches(path, pattern) == StartsWith(basename(path), pattern)

\* variant: the index is trusted
StillExists_Trusted(path, fs) == TRUE

\* ... and os.path.exists(path)
StillExists(path, fs) == exists(path, fs)

\* why a record is dropped, or "yield"
Verdict(url, pattern, fs) ==
    LET uri == urlparse(url)
        path == unquote(uri.path)
    IN  IF ~IsFileScheme(uri) THEN "scheme"
        ELSE IF ~BasenameMatches(path, pattern) THEN "basename"
        ELSE IF ~StillExists(path, fs) THEN "stale"
        ELSE "yield"

\* the generator has nothing left: its next() raises StopIteration
Exhausted(g) ==
    /\ g.state = "running"
    /\ IF g.func = "native_complete" THEN g.items = <<>> ELSE g.fetched = g.nres

(***************************************************************************)
(* The dispatcher.                                                         *)
(***************************************************************************)
\* variant: every candidate is taken for a new one
IsNew_Always(completion, existing) == TRUE

\* if not completion in existing_completions
IsNew(completion, existing) == completion \notin existing

\* variant: the newest line comes first
print_completion_First(out, completion) == <<completion>> \o out

\* print completion
print_completion(out, completion) == Append(out, completion)

\* variant: the next completer is started while the current one has more to give
CanAdvance_Early(i, g) == i = 0 \/ g.state \in {"running", "finished"}

\* the for statement asks for the next completer once the generator it was
\* consuming has raised StopIteration
CanAdvance(i, g) == i = 0 \/ g.state = "finished"

\* the body of the inner loop, run for a candidate the generator yields
Consume(completion, url) ==
    /\ IF IsNew(completion, existing_completions)
       THEN /\ existing_completions' = existing_completions \cup {completion}
            /\ stdout' = print_completion(stdout, completion)
       ELSE UNCHANGED <<existing_completions, stdout>>
    /\ yielded' = Append(yielded,
            [path |-> completion, idx |-> ci, by |-> candidate_completions.func,
             url |-> url])

(***************************************************************************)
(* Init and the steps.                                                     *)
(***************************************************************************)
Init ==
    /\ pc = "load_native"
    /\ importable \in SUBSET OptionalModules
    /\ service \in BOOLEAN
    /\ files = Files
    /\ served = 0
    /\ available_completers = <<>>
    /\ requested = <<>>
    /\ search_pattern = <<>>
    /\ selected_completers = <<>>
    /\ ci = 0
    /\ candidate_completions = NoGenerator
    /\ existing_completions = {}
    /\ stdout = <<>>
    /\ stderr = <<>>
    /\ uncaught = "none"
    /\ exit_status = <<>>
    /\ yielded = <<>>
    /\ skipped = {}
    /\ left = <<>>

\* @register_completer('native')
LoadNative ==
    /\ pc = "load_native"
    /\ available_completers' =
            register_completer(available_completers, "native", "native_complete")
    /\ pc' = "load_recoll"
    /\ UNCHANGED <<env, files, served, args, selected_completers, ci,
                   candidate_completions, output, ending, skipped, left>>

\* try: from recoll import recoll ... @register_completer('recoll') except: pass
LoadRecoll ==
    /\ pc = "load_recoll"
    /\ available_completers' =
            IF ImportsSucceed({"recoll"}, importable)
            THEN register_completer(available_completers, "recoll", "recoll_complete")
            ELSE available_completers
    /\ pc' = "load_gnome"
    /\ UNCHANGED <<env, files, served, args, selected_completers, ci,
                   candidate_completions, output, ending, skipped, left>>

\* try: import pygtk, gtk ... @register_completer('gnome-recent-docs') except: pass
LoadGnome ==
    /\ pc = "load_gnome"
    /\ available_completers' =
            IF ImportsSucceed({"gtk"}, importable)
            THEN register_completer(available_completers, "gnome-recent-docs",
                                    "gnome_recent_documents_complete")
            ELSE available_completers
    /\ pc' = "main"
    /\ UNCHANGED <<env, files, served, args, selected_completers, ci,
                   candidate_completions, output, ending, skipped, left>>

\* options, args = parser.parse_args(); search_pattern = ' '.join(args)
ParseArgs ==
    /\ pc = "main"
    /\ \E names \in NameLists, pattern \in Patterns :
            /\ requested' = names
            /\ search_pattern' = pattern
    /\ pc' = "select"
    /\ UNCHANGED <<env, files, served, available_completers, selected_completers,
                   ci, candidate_completions, output, ending, skipped, left>>

\* selected_completers = [available_completers[name] for name in ...], or the
\* error message and sys.exit(2); then existing_completions = set()
SelectCompleters ==
    /\ pc = "select"
    /\ LET bad == FirstUnknown(requested, available_completers)
       IN  IF bad = 0
           THEN /\ selected_completers' =
                        [i \in 1..Len(requested) |-> available_completers[requested[i]]]
                /\ pc' = "dispatch"
                /\ UNCHANGED ending
           ELSE /\ stderr' = Append(stderr, requested[bad])
                /\ exit_status' = <<2>>
                /\ pc' = "exit"
                /\ UNCHANGED <<selected_completers, uncaught>>
    /\ UNCHANGED <<env, files, served, available_completers, args, ci,
                   candidate_completions, output, skipped, left>>

\* for completer in selected_completers: candidate_completions = completer(...)
NextCompleter ==
    /\ pc = "dispatch"
    /\ CanAdvance(ci, candidate_completions)
    /\ ci < Len(selected_completers)
    /\ ci' = ci + 1
    /\ candidate_completions' = NewGenerator(selected_completers[ci + 1])
    /\ left' = IF ci = 0 THEN left
               ELSE Append(left, candidate_completions.state = "finished")
    /\ UNCHANGED <<pc, env, files, served, available_completers, args,
                   selected_completers, output, ending, skipped>>

\* the outer loop is over: the script ends
Exit ==
    /\ pc = "dispatch"
    /\ CanAdvance(ci, candidate_completions)
    /\ ci = Len(selected_completers)
    /\ pc' = "exit"
    /\ exit_status' = <<0>>
    /\ left' = Append(left, candidate_completions.state = "finished")
    /\ UNCHANGED <<env, files, served, available_completers, args,
                   selected_completers, ci, candidate_completions, output, stderr,
                   uncaught, skipped>>

\* the first next() of glob.iglob: the directory is listed, in the order the
\* file system gives
NativeBegin ==
    /\ pc = "dispatch"
    /\ candidate_completions.func = "native_complete"
    /\ candidate_completions.state = "created"
    /\ \E order \in Orders(native_complete(search_pattern, files)) :
            candidate_completions' =
                [candidate_completions EXCEPT !.state = "running", !.items = order]
    /\ UNCHANGED <<pc, env, files, served, available_completers, args,
                   selected_completers, ci, output, ending, skipped, left>>

\* iglob yields its next path, and the inner loop's body runs
NativeYield ==
    /\ pc = "dispatch"
    /\ candidate_completions.func = "native_complete"
    /\ candidate_completions.state = "running"
    /\ candidate_completions.items # <<>>
    /\ Consume(Head(candidate_completions.items), <<>>)
    /\ candidate_completions' =
            [candidate_completions EXCEPT !.items = Tail(candidate_completions.items)]
    /\ UNCHANGED <<pc, env, files, served, available_completers, args,
                   selected_completers, ci, ending, skipped, left>>

\* the first next() of recoll_complete, down to the query
RecollBegin ==
    /\ pc = "dispatch"
    /\ candidate_completions.func = "recoll_complete"
    /\ candidate_completions.state = "created"
    /\ IF TooShort(search_pattern)
       THEN /\ candidate_completions' = Finished(candidate_completions)
            /\ UNCHANGED <<pc, ending>>
       ELSE IF ~service
       THEN /\ uncaught' = "recoll.connect"
            /\ exit_status' = <<1>>
            /\ pc' = "exit"
            /\ UNCHANGED <<candidate_completions, stderr>>
       ELSE /\ \E n \in 0..(MaxRecords - served) :
                    candidate_completions' =
                        [candidate_completions EXCEPT !.state = "running", !.nres = n]
            /\ UNCHANGED <<pc, ending>>
    /\ UNCHANGED <<env, files, served, available_completers, args,
                   selected_completers, ci, output, skipped, left>>

\* the first next() of gnome_recent_documents_complete: manager.get_items()
GnomeBegin ==
    /\ pc = "dispatch"
    /\ candidate_completions.func = "gnome_recent_documents_complete"
    /\ candidate_completions.state = "created"
    /\ \E n \in 0..(MaxRecords - served) :
            candidate_completions' =
                [candidate_completions EXCEPT !.state = "running", !.nres = n]
    /\ UNCHANGED <<pc, env, files, served, available_completers, args,
                   selected_completers, ci, output, ending, skipped, left>>

\* one turn of the completer's for loop over the records: the record is dropped,
\* or its path is yielded and the inner loop's body runs
Fetch(func) ==
    /\ pc = "dispatch"
    /\ candidate_completions.func = func
    /\ candidate_completions.state = "running"
    /\ candidate_completions.fetched < candidate_completions.nres
    /\ \E url \in Uris :
        LET verdict == Verdict(url, search_pattern, files)
        IN  IF verdict = "yield"
            THEN /\ Consume(unquote(urlparse(url).path), url)
                 /\ UNCHANGED skipped
            ELSE /\ skipped' = skipped \cup {[by |-> func, why |-> verdict]}
                 /\ UNCHANGED output
    /\ candidate_completions' =
            [candidate_completions EXCEPT !.fetched = candidate_completions.fetched + 1]
    /\ served' = served + 1
    /\ UNCHANGED <<pc, env, files, available_completers, args,
                   selected_completers, ci, ending, left>>

RecollFetch == Fetch("recoll_complete")

GnomeFetch == Fetch("gnome_recent_documents_complete")

\* next() on a generator that has nothing left: StopIteration ends the inner loop
StopIteration ==
    /\ pc = "dispatch"
    /\ Exhausted(candidate_completions)
    /\ candidate_completions' = Finished(candidate_completions)
    /\ UNCHANGED <<pc, env, files, served, available_completers, args,
                   selected_completers, ci, output, ending, skipped, left>>

\* the generator's next step reads the file system: iglob lists the directory,
\* an index-backed completer tests os.path.exists
ReadsFilesNext(g) ==
    \/ g.func = "native_complete" /\ g.state = "created"
    \/ /\ g.func \in {"recoll_complete", "gnome_recent_documents_complete"}
       /\ g.state = "running"
       /\ g.fetched < g.nres

\* another process deletes a file, or creates one, before the script next reads
\* the file system (a change at any other moment reaches the script no sooner)
FsChange ==
    /\ pc = "dispatch"
    /\ ReadsFilesNext(candidate_completions)
    /\ \E f \in Files : files' = IF f \in files THEN files \ {f} ELSE files \cup {f}
    /\ UNCHANGED <<pc, env, served, available_completers, args, selected_completers,
                   ci, candidate_completions, output, ending, skipped, left>>

Next ==
    \/ LoadNative
    \/ LoadRecoll
    \/ LoadGnome
    \/ ParseArgs
    \/ SelectCompleters
    \/ NextCompleter
    \/ NativeBegin
    \/ NativeYield
    \/ RecollBegin
    \/ RecollFetch
    \/ GnomeBegin
    \/ GnomeFetch
    \/ StopIteration
    \/ Exit
    \/ FsChange

Spec == Init /\ [][Next]_vars

(***************************************************************************)
(* What the claims are stated with.                                        *)
(***************************************************************************)
IndexBacked == {"recoll_complete", "gnome_recent_documents_complete"}

Range(seq) == {seq[i] : i \in 1..Len(seq)}

PathsOf(ys) == [i \in 1..Len(ys) |-> ys[i].path]

\* seq with every occurrence of an element after its first removed
RECURSIVE Dedup(_)
Dedup(seq) ==
    IF seq = <<>> THEN <<>>
    ELSE LET front == Dedup(Take(seq, Len(seq) - 1))
             last == seq[Len(seq)]
         IN  IF last \in Range(front) THEN front ELSE Append(front, last)

\* the script has resolved, or failed to resolve, the requested names
Resolved == pc \in {"dispatch", "exit"}

\* the positions of the requested names the registry does not hold
UnknownAt == {i \in 1..Len(requested) : requested[i] \notin DOMAIN available_completers}

HasSlash(s) == \E i \in 1..Len(s) : s[i] = "/"

\* the module a completer needs, if any
ModuleOf(name) ==
    CASE name = "recoll" -> {"recoll"}
      [] name = "gnome-recent-docs" -> {"gtk"}
      [] OTHER -> {}

\* the names the script defines a completer for
Defined == {"native", "recoll", "gnome-recent-docs"}

(***************************************************************************)
(* C1                                                                      *)
(***************************************************************************)
\* C1: when the requested list holds a name the registry lacks, the script has
\* printed nothing, has called no completer, has exited with status 2, and the
\* one name its message reports is the first unknown name of the list.
C1_UnknownNameFailsFast ==
    (Resolved /\ UnknownAt # {}) =>
        /\ pc = "exit"
        /\ exit_status = <<2>>
        /\ stdout = <<>>
        /\ yielded = <<>>
        /\ ci = 0
        /\ candidate_completions = NoGenerator
        /\ \E i \in UnknownAt :
                /\ \A j \in UnknownAt : i <= j
                /\ stderr = <<requested[i]>>

\* a registered name listed first, an unknown one after it, and the script over
C1_Witness ==
    /\ pc = "exit"
    /\ requested = <<"native", "bogus">>
    /\ exit_status = <<2>>

(***************************************************************************)
(* C2                                                                      *)
(***************************************************************************)
\* C2: the lines printed are the candidates yielded, completer after completer
\* in the order selected, with every occurrence of a path after its first
\* removed: a path two completers yield stands where the earlier one put it.
C2_FirstOccurrenceOrder ==
    /\ stdout = Dedup(PathsOf(yielded))
    /\ \A i, j \in 1..Len(yielded) : i < j => yielded[i].idx <= yielded[j].idx

\* two completers have yielded the same path, with another path printed between
C2_Witness ==
    /\ pc = "exit"
    /\ Len(stdout) >= 2
    /\ \E i, j \in 1..Len(yielded) :
            /\ yielded[i].idx < yielded[j].idx
            /\ yielded[i].path = yielded[j].path
            /\ yielded[i].path = stdout[1]

(***************************************************************************)
(* C3                                                                      *)
(***************************************************************************)
\* C3: at every point no path has been printed twice, and the set
\* existing_completions holds exactly the paths printed so far.
C3_NoDuplicates ==
    /\ \A i, j \in 1..Len(stdout) : stdout[i] = stdout[j] => i = j
    /\ existing_completions = Range(stdout)

\* one completer has yielded the same path twice
C3_Witness ==
    \E i, j \in 1..Len(yielded) :
        /\ i < j
        /\ yielded[i].idx = yielded[j].idx
        /\ yielded[i].path = yielded[j].path

(***************************************************************************)
(* C4                                                                      *)
(***************************************************************************)
\* C4, as claimed: every path printed is absolute, whatever the pattern.
C4_AllAbsolute == \A i \in 1..Len(stdout) : isabs(stdout[i])

\* C4, amended: with an absolute pattern every path printed is absolute; the
\* native completer yields an absolute path exactly when the pattern is absolute,
\* so with a relative or empty pattern it yields relative paths.
C4_AbsoluteWithAbsolutePattern ==
    /\ isabs(search_pattern) => \A i \in 1..Len(stdout) : isabs(stdout[i])
    /\ \A i \in 1..Len(yielded) :
            yielded[i].by = "native_complete" =>
                (isabs(yielded[i].path) <=> isabs(search_pattern))

\* an absolute pattern, the native completer among those selected, and output
C4_Witness ==
    /\ pc = "exit"
    /\ isabs(search_pattern)
    /\ requested = <<"gnome-recent-docs", "native">>
    /\ Len(stdout) = 2

(***************************************************************************)
(* C5                                                                      *)
(***************************************************************************)
\* C5: when every requested name is registered the unknown-completer error is
\* never raised (nothing reported, no status 2), and a script that ends without
\* a back-end failing ends with status 0, also when it printed nothing.
C5_RegisteredNamesSucceed ==
    (Resolved /\ UnknownAt = {}) =>
        /\ stderr = <<>>
        /\ exit_status # <<2>>
        /\ (pc = "exit" /\ uncaught = "none") => exit_status = <<0>>

\* two optional completers, both registered, ran and found nothing
C5_Witness ==
    /\ pc = "exit"
    /\ requested = <<"recoll", "gnome-recent-docs">>
    /\ Len(search_pattern) = 3
    /\ served = MaxRecords
    /\ stdout = <<>>
    /\ exit_status = <<0>>

(***************************************************************************)
(* C6                                                                      *)
(***************************************************************************)
\* C6: for a pattern of length 0, 1 or 2 recoll_complete yields nothing and
\* looks at no record.
C6_ShortPatternYieldsNothing ==
    Len(search_pattern) \in {0, 1, 2} =>
        /\ \A i \in 1..Len(yielded) : yielded[i].by # "recoll_complete"
        /\ \A s \in skipped : s.by # "recoll_complete"

\* recoll_complete ran with a pattern of two characters and gave nothing, and the
\* recent-documents completer, run after it with the same pattern, found a file
C6_Witness ==
    /\ pc = "exit"
    /\ Len(search_pattern) = 2
    /\ requested = <<"recoll", "gnome-recent-docs">>
    /\ left = <<TRUE, TRUE>>
    /\ stdout # <<>>

(***************************************************************************)
(* C7                                                                      *)
(***************************************************************************)
\* a step in which a completer yields
Yields == Len(yielded') = Len(yielded) + 1

\* a step in which an index-backed completer drops a record
Drops == served' = served + 1 /\ yielded' = yielded

\* C7: whenever recoll_complete or gnome_recent_documents_complete yields a path,
\* it is the decoded path of a record whose scheme is file, its basename starts
\* with the pattern, and it exists at that moment; and dropping a record (stale
\* or not matching) raises nothing: the script goes on.
C7_StalenessCorrection ==
    [][/\ (Yields /\ yielded'[Len(yielded')].by \in IndexBacked) =>
            LET y == yielded'[Len(yielded')]
            IN  /\ urlparse(y.url).scheme = <<"f", "i", "l", "e">>
                /\ y.path = unquote(urlparse(y.url).path)
                /\ StartsWith(basename(y.path), search_pattern)
                /\ abspath(y.path) \in files
       /\ Drops => (pc' = "dispatch" /\ ending' = ending /\ exit_status' = <<>>)
      ]_vars

\* recoll_complete has dropped a stale record and yielded a live one
C7_Witness ==
    /\ [by |-> "recoll_complete", why |-> "stale"] \in skipped
    /\ \E i \in 1..Len(yielded) : yielded[i].by = "recoll_complete"

(***************************************************************************)
(* C8                                                                      *)
(***************************************************************************)
\* the back-end is available: its module is installed and its service answers
BackendAvailable(name) ==
    /\ ModuleOf(name) \subseteq importable
    /\ name = "recoll" => service

C9_NoInterleaving ==
    /\ \A k \in 1..Len(left) : left[k]
    /\ Len(left) = (IF pc = "exit" /\ uncaught = "none" /\ ci > 0 THEN ci
                    ELSE IF ci > 0 THEN ci - 1 ELSE 0)
    /\ \A i \in 1..Len(yielded) :
            /\ yielded[i].idx \in 1..ci
            /\ yielded[i].by = selected_completers[yielded[i].idx]
    /\ \A i, j \in 1..Len(yielded) : i < j => yielded[i].idx <= yielded[j].idx

\* the second completer is being consumed, after the first yielded and ended
C9_Witness ==
    /\ ci = 2
    /\ candidate_completions.state = "running"
    /\ \E i \in 1..Len(yielded) : yielded[i].idx = 1
    /\ \E i \in 1..Len(yielded) : yielded[i].idx = 2

(***************************************************************************)
(* C10                                                                     *)
(***************************************************************************)
\* C10: with a pattern that holds a slash, every candidate yielded comes from
\* the native completer: the index-backed completers yield nothing.
C10_SlashPatternOnlyNative ==
    HasSlash(search_pattern) =>
        \A i \in 1..Len(yielded) : yielded[i].by = "native_complete"

\* with such a pattern recoll_complete dropped a file record for its basename,
\* and the native completer, run before it, printed a path
C10_Witness ==
    /\ pc = "exit"
    /\ HasSlash(search_pattern)
    /\ requested = <<"native", "recoll">>
    /\ [by |-> "recoll_complete", why |-> "basename"] \in skipped
    /\ stdout # <<>>

====
